---- MODULE Spec2Model ----
(***************************************************************************)
(* A model of kernel/zarch/gemm_vec.c: the GEBP inner kernel               *)
(* C += alpha * (A * B) over packed operands A and B.                      *)
(*                                                                         *)
(* Pointers are element offsets into the buffers they point into; FLOAT is *)
(* modelled by exact integers.  The build flag DOUBLE is a variable fixed  *)
(* by Init, so that both builds of the file are covered.                   *)
(***************************************************************************)
EXTENDS Integers, Sequences, FiniteSets, TLC

VARIABLES
    DOUBLE,      \* the build: TRUE when FLOAT is double (#ifdef DOUBLE)
    bm, bn, bk,  \* extents handed to CNAME
    alpha,       \* scalar factor
    ldc,         \* column stride of C
    ba, bb,      \* packed operands, functions 0..len-1 -> Int
    C,           \* the output buffer, function 0..len-1 -> Int
    C_before,    \* C as it was when the call started
    pc,          \* position of the call
    col,         \* CNAME: col
    n_block_size,\* CNAME: block_size
    first_col,   \* GEBP_column_block: first_col
    num_cols,    \* GEBP_column_block: num_cols
    row,         \* GEBP_column_block: row
    m_block_size,\* GEBP_column_block: block_size
    ret,         \* CNAME's return value, NoRet until it returns
    ncalls,      \* how often each inner component was invoked
    lastcall,    \* arguments of the latest GEBP_block invocation
    wcount,      \* per C location: number of read-modify-writes so far
    readsA,      \* element indices of ba read so far
    readsB,      \* element indices of bb read so far
    \* the partitioning loop on its own
    E, T, block_size, offset, blocks, ppc,
    \* one tile through the micro-kernel and through the generic path
    Cvec, Cgen,
    \* two concurrent invocations
    th, shared

callVars == <<DOUBLE, bm, bn, bk, alpha, ldc, ba, bb, C, C_before, pc, col,
              n_block_size, first_col, num_cols, row, m_block_size, ret,
              ncalls, lastcall, wcount, readsA, readsB>>
partVars == <<E, T, block_size, offset, blocks, ppc>>
tileVars == <<Cvec, Cgen>>
concVars == <<th, shared>>
vars == <<callVars, partVars, tileVars, concVars>>

(***************************************************************************)
(* Bounds of the model.                                                    *)
(***************************************************************************)
MaxM == 17
MaxN == 9
MaxK == 2
MaxPad == 1
MaxSeed == 1
MaxE == 20
MaxT == 9

Alphas == {0 - 1, 0, 2}

(***************************************************************************)
(* Build constants.                                                        *)
(***************************************************************************)
UNROLL_M == 8
UNROLL_N == 4
unroll_m == UNROLL_M
unroll_n == UNROLL_N

VLEN_BYTES == 16
SizeofFLOAT == IF DOUBLE THEN 8 ELSE 4
VLEN_FLOATS == VLEN_BYTES \div SizeofFLOAT

NoRet == 0 - 1

(***************************************************************************)
(* Memory.                                                                 *)
(***************************************************************************)
\* A read of element idx.  A read outside the buffer is undefined in C; every
\* index read is recorded in readsA and readsB, and C10_ReadsInBounds shows
\* that the ELSE branch is never taken by a call of CNAME.
Load(mem, idx) == IF idx \in DOMAIN mem THEN mem[idx] ELSE 0

\* Bounded input contents: buffer of len elements, selected by a seed.
Fill(seed, len) ==
    [p \in 0 .. len - 1 |->
        IF seed = 0 THEN p + 1
        ELSE (((p + 1) * (seed + 1) + p * p * seed) % 5) - 2]

(***************************************************************************)
(* The partitioning loop, as written twice in the file:                    *)
(*   for (block_size = T; block_size > 0; block_size /= 2)                 *)
(*       for (; extent - offset >= block_size; offset += block_size) body  *)
(***************************************************************************)
\* the loop condition written block_size >= 0
LoopRunsNonNegative(bs) == bs >= 0

LoopRuns(bs) == bs > 0

\* the inner condition written with > for >=
BodyRunsStrict(extent, off, bs) == extent - off > bs

BodyRuns(extent, off, bs) == extent - off >= bs

\* block_size-- for block_size /= 2
HalveDecrement(bs) == bs - 1

Halve(bs) == bs \div 2

\* The whole loop as a function: the blocks <<start, size>> it visits, in
\* order, from loop state (bs, off).
RECURSIVE LoopBlocks(_, _, _)
LoopBlocks(extent, bs, off) ==
    IF ~LoopRuns(bs) THEN << >>
    ELSE IF BodyRuns(extent, off, bs)
         THEN <<[start |-> off, size |-> bs]>>
              \o LoopBlocks(extent, bs, off + bs)
         ELSE LoopBlocks(extent, Halve(bs), off)

(***************************************************************************)
(* VECTOR_BLOCK(ROWS, COLS): the micro-kernel GEBP_block_ROWS_COLS.        *)
(* A, B and Cp are the element offsets of its pointer arguments.           *)
(***************************************************************************)
\* the column stride of the packed block taken to be one vector
VecAIndexVectorStride(ROWS, A, i, l, k) ==
    A + i * VLEN_FLOATS + l + k * VLEN_FLOATS

\* index of lane l of the vector Ak loaded at (k, i)
VecAIndex(ROWS, A, i, l, k) == A + i * VLEN_FLOATS + l + k * ROWS

VecBIndex(COLS, B, j, k) == B + j + k * COLS

\* index of lane l of the vector C_ij
VecCIndex(Cp, ld, i, j) == Cp + i * VLEN_FLOATS + j * ld

\* Caux[i][j], lane l, after the loop over k = 0 .. upto - 1
RECURSIVE VecCaux(_, _, _, _, _, _, _, _)
VecCaux(ROWS, COLS, A, B, i, j, l, upto) ==
    IF upto = 0 THEN 0
    ELSE VecCaux(ROWS, COLS, A, B, i, j, l, upto - 1)
         + Load(ba, VecAIndex(ROWS, A, i, l, upto - 1))
           * Load(bb, VecBIndex(COLS, B, j, upto - 1))

\* The read-modify-writes of C the micro-kernel performs, in program order
\* (j outer, i inner); each is one vector: base index and per-lane addend.
VecUpdates(ROWS, COLS, A, k, B, Cp, ld, al) ==
    LET nv == ROWS \div VLEN_FLOATS
    IN  [x \in 1 .. COLS * nv |->
            LET j == (x - 1) \div nv
                i == (x - 1) % nv
            IN  [base  |-> VecCIndex(Cp, ld, i, j),
                 delta |-> [l \in 1 .. VLEN_FLOATS |->
                              al * VecCaux(ROWS, COLS, A, B, i, j, l - 1, k)]]]

VecReadsA(ROWS, A, k) ==
    {VecAIndex(ROWS, A, i, l, kk) :
        i \in 0 .. (ROWS \div VLEN_FLOATS) - 1, l \in 0 .. VLEN_FLOATS - 1,
        kk \in 0 .. k - 1}

VecReadsB(COLS, B, k) ==
    {VecBIndex(COLS, B, j, kk) : j \in 0 .. COLS - 1, kk \in 0 .. k - 1}

(***************************************************************************)
(* The generic path of GEBP_block ("simple implementation").               *)
(***************************************************************************)
GenAIndex(m, A, i, kk) == A + i + kk * m

GenBIndex(n, B, j, kk) == B + j + kk * n

\* C indexed as if it were row-major
GenCIndexRowMajor(Cp, ld, i, j) == Cp + i * ld + j

GenCIndex(Cp, ld, i, j) == Cp + i + j * ld

\* Caux zeroed instead of initialized from the first column of A
GenPeelZero(m, n, A, B, i, j) == 0

\* Caux[i][j] after the peeled first iteration
GenPeel(m, n, A, B, i, j) ==
    Load(ba, GenAIndex(m, A, i, 0)) * Load(bb, GenBIndex(n, B, j, 0))

\* first kk of the accumulation loop that follows the peeled iteration
GenFirstKK == 1

\* Caux[i][j] after the peeled iteration and the loop over kk < upto
RECURSIVE GenCaux(_, _, _, _, _, _, _)
GenCaux(m, n, A, B, i, j, upto) ==
    IF upto <= GenFirstKK THEN GenPeel(m, n, A, B, i, j)
    ELSE GenCaux(m, n, A, B, i, j, upto - 1)
         + Load(ba, GenAIndex(m, A, i, upto - 1))
           * Load(bb, GenBIndex(n, B, j, upto - 1))

\* The read-modify-writes of C of the generic path, in program order
\* (i outer, j inner); each is one element.
GenUpdates(m, n, A, k, B, Cp, ld, al) ==
    [x \in 1 .. m * n |->
        LET i == (x - 1) \div n
            j == (x - 1) % n
        IN  [base  |-> GenCIndex(Cp, ld, i, j),
             delta |-> <<al * GenCaux(m, n, A, B, i, j, k)>>]]

\* kk values whose A and B elements are read: the peeled 0, then the loop's
GenReadsA(m, A, k) ==
    {GenAIndex(m, A, i, kk) : i \in 0 .. m - 1, kk \in {0} \cup (GenFirstKK .. k - 1)}

GenReadsB(n, B, k) ==
    {GenBIndex(n, B, j, kk) : j \in 0 .. n - 1, kk \in {0} \cup (GenFirstKK .. k - 1)}

(***************************************************************************)
(* GEBP_block: pointer adjustment and dispatch.                            *)
(***************************************************************************)
\* BLOCK(8, 4); ... the shapes with a micro-kernel in this build
Specialized(m, n) ==
    \/ m = 8 /\ n \in {4, 2, 1}
    \/ m = 4 /\ n \in {4, 2, 1}
    \/ DOUBLE /\ m = 2 /\ n \in {4, 2}

\* A += first_row + k
BlockAPlus(A, frow, k) == A + frow + k

\* A += first_row * k
BlockA(A, frow, k) == A + frow * k

\* C += first_row * ldc
BlockCTimesLdc(Cp, frow) == Cp + frow * ldc

\* C += first_row
BlockC(Cp, frow) == Cp + frow

BlockUpdates(m, n, frow, A, k, B, Cp, ld, al) ==
    IF Specialized(m, n)
    THEN VecUpdates(m, n, BlockA(A, frow, k), k, B, BlockC(Cp, frow), ld, al)
    ELSE GenUpdates(m, n, BlockA(A, frow, k), k, B, BlockC(Cp, frow), ld, al)

(***************************************************************************)
(* Applying read-modify-writes to a buffer.                                *)
(***************************************************************************)
Covers(u, p) == p - u.base \in 0 .. Len(u.delta) - 1

ApplyUpdate(mem, u) ==
    [p \in DOMAIN mem |->
        IF Covers(u, p) THEN mem[p] + u.delta[p - u.base + 1] ELSE mem[p]]

RECURSIVE ApplyFrom(_, _, _)
ApplyFrom(mem, ups, x) ==
    IF x > Len(ups) THEN mem
    ELSE ApplyFrom(ApplyUpdate(mem, ups[x]), ups, x + 1)

ApplyAll(mem, ups) == ApplyFrom(mem, ups, 1)

\* the C locations one read-modify-write touches
Touched(u) == {u.base + l : l \in 0 .. Len(u.delta) - 1}

\* wc with the locations of update u counted once more
CountUpdate(wc, u) ==
    [p \in DOMAIN wc \cup Touched(u) |->
        (IF p \in DOMAIN wc THEN wc[p] ELSE 0)
        + (IF p \in Touched(u) THEN 1 ELSE 0)]

RECURSIVE CountFrom(_, _, _)
CountFrom(wc, ups, x) ==
    IF x > Len(ups) THEN wc
    ELSE CountFrom(CountUpdate(wc, ups[x]), ups, x + 1)

CountAll(wc, ups) == CountFrom(wc, ups, 1)

(***************************************************************************)
(* GEBP_column_block: the pointers of one column block.                    *)
(***************************************************************************)
\* C_i = C + first_col * ldc
ColumnC(Cp, fcol, ld) == Cp + fcol * ld

\* B_i = B + first_col * ldc
ColumnBWrongStride(B, fcol, k) == B + fcol * ldc

\* B_i = B + first_col * bk
ColumnB(B, fcol, k) == B + fcol * k

(***************************************************************************)
(* CNAME: the guard at its entry.                                          *)
(***************************************************************************)
\* the guard without its test of alpha
DegenerateNoAlpha(m, n, k, al) == (m = 0) \/ (n = 0) \/ (k = 0)

Degenerate(m, n, k, al) == (m = 0) \/ (n = 0) \/ (k = 0) \/ (al = 0)

(***************************************************************************)
(* One call of CNAME, a step at a time.                                    *)
(***************************************************************************)
NoCall == [kind |-> "none", m |-> 0, n |-> 0, k |-> 0, A |-> 0, B |-> 0]

partIdle ==
    /\ E = 0 /\ T = 1 /\ block_size = 0 /\ offset = 0
    /\ blocks = << >> /\ ppc = "idle"

tileIdle == Cvec = << >> /\ Cgen = << >>

concIdle == th = << >> /\ shared = << >>

MaxOf(a, b) == IF a >= b THEN a ELSE b

Init ==
    /\ DOUBLE \in BOOLEAN
    /\ bm \in 0 .. MaxM
    /\ bn \in 0 .. MaxN
    /\ bk \in 0 .. MaxK
    /\ alpha \in Alphas
    /\ ldc \in MaxOf(bm, 1) .. MaxOf(bm, 1) + MaxPad
    /\ \E seed \in 0 .. MaxSeed :
          /\ ba = Fill(seed, bm * bk)
          /\ bb = Fill(seed + 1, bk * bn)
          /\ C = Fill(seed + 2, ldc * bn)
    /\ C_before = C
    /\ pc = "entry"
    /\ col = 0 /\ n_block_size = 0
    /\ first_col = 0 /\ num_cols = 0 /\ row = 0 /\ m_block_size = 0
    /\ ret = NoRet
    /\ ncalls = [column_block |-> 0, block |-> 0, vec |-> 0, generic |-> 0]
    /\ lastcall = NoCall
    /\ wcount = << >>
    /\ readsA = {} /\ readsB = {}
    /\ partIdle /\ tileIdle /\ concIdle

others == <<partVars, tileVars, concVars>>
inputs == <<DOUBLE, bm, bn, bk, alpha, ldc, ba, bb, C_before>>
logs == <<ncalls, lastcall, wcount, readsA, readsB>>

\* if ((bm == 0) || (bn == 0) || (bk == 0) || (alpha == ZERO)) return 0;
EntryReturn ==
    /\ pc = "entry"
    /\ Degenerate(bm, bn, bk, alpha)
    /\ ret' = 0
    /\ pc' = "done"
    /\ UNCHANGED <<inputs, C, col, n_block_size, first_col, num_cols, row,
                   m_block_size, logs, others>>

\* BLASLONG col = 0; block_size = unroll_n
EntryProceed ==
    /\ pc = "entry"
    /\ ~Degenerate(bm, bn, bk, alpha)
    /\ col' = 0
    /\ n_block_size' = unroll_n
    /\ pc' = "cols"
    /\ UNCHANGED <<inputs, C, first_col, num_cols, row, m_block_size, ret,
                   logs, others>>

\* the call GEBP_column_block(block_size, col, ba, bk, bb, bm, C, ldc, alpha)
ColumnBlockCall ==
    /\ pc = "cols"
    /\ LoopRuns(n_block_size)
    /\ BodyRuns(bn, col, n_block_size)
    /\ num_cols' = n_block_size
    /\ first_col' = col
    /\ row' = 0
    /\ m_block_size' = unroll_m
    /\ ncalls' = [ncalls EXCEPT !.column_block = @ + 1]
    /\ pc' = "rows"
    /\ UNCHANGED <<inputs, C, col, n_block_size, ret, lastcall, wcount,
                   readsA, readsB, others>>

\* block_size /= 2 in CNAME
ColumnHalve ==
    /\ pc = "cols"
    /\ LoopRuns(n_block_size)
    /\ ~BodyRuns(bn, col, n_block_size)
    /\ n_block_size' = Halve(n_block_size)
    /\ UNCHANGED <<inputs, C, col, first_col, num_cols, row, m_block_size,
                   ret, logs, pc, others>>

\* return 0 at the end of CNAME
Return ==
    /\ pc = "cols"
    /\ ~LoopRuns(n_block_size)
    /\ ret' = 0
    /\ pc' = "done"
    /\ UNCHANGED <<inputs, C, col, n_block_size, first_col, num_cols, row,
                   m_block_size, logs, others>>

\* GEBP_block(block_size, num_cols, row, A, bk, B_i, C_i, ldc, alpha), at
\* the arguments the row loop hands it
BlockArgs ==
    [m |-> m_block_size, n |-> num_cols, first_row |-> row,
     A |-> 0, k |-> bk, B |-> ColumnB(0, first_col, bk),
     Cp |-> ColumnC(0, first_col, ldc)]

BlockGuard ==
    /\ pc = "rows"
    /\ LoopRuns(m_block_size)
    /\ BodyRuns(bm, row, m_block_size)

BlockEffect(a, kind, rA, rB) ==
    LET ups == BlockUpdates(a.m, a.n, a.first_row, a.A, a.k, a.B, a.Cp,
                            ldc, alpha)
    IN  /\ C' = ApplyAll(C, ups)
        /\ wcount' = CountAll(wcount, ups)
        /\ readsA' = readsA \cup rA
        /\ readsB' = readsB \cup rB
        /\ lastcall' = [kind |-> kind, m |-> a.m, n |-> a.n, k |-> a.k,
                        A |-> BlockA(a.A, a.first_row, a.k), B |-> a.B]
        /\ row' = row + m_block_size
        /\ UNCHANGED <<inputs, col, n_block_size, first_col, num_cols,
                       m_block_size, ret, pc, others>>

\* GEBP_block dispatching to GEBP_block_<m>_<n>
BlockVector ==
    /\ BlockGuard
    /\ Specialized(BlockArgs.m, BlockArgs.n)
    /\ ncalls' = [ncalls EXCEPT !.block = @ + 1, !.vec = @ + 1]
    /\ LET a == BlockArgs
       IN  BlockEffect(a, "vec",
                       VecReadsA(a.m, BlockA(a.A, a.first_row, a.k), a.k),
                       VecReadsB(a.n, a.B, a.k))

\* GEBP_block falling through to the simple implementation
BlockGeneric ==
    /\ BlockGuard
    /\ ~Specialized(BlockArgs.m, BlockArgs.n)
    /\ ncalls' = [ncalls EXCEPT !.block = @ + 1, !.generic = @ + 1]
    /\ LET a == BlockArgs
       IN  BlockEffect(a, "generic",
                       GenReadsA(a.m, BlockA(a.A, a.first_row, a.k), a.k),
                       GenReadsB(a.n, a.B, a.k))

\* block_size /= 2 in GEBP_column_block
RowHalve ==
    /\ pc = "rows"
    /\ LoopRuns(m_block_size)
    /\ ~BodyRuns(bm, row, m_block_size)
    /\ m_block_size' = Halve(m_block_size)
    /\ UNCHANGED <<inputs, C, col, n_block_size, first_col, num_cols, row,
                   ret, logs, pc, others>>

\* GEBP_column_block returns; col += block_size in CNAME
ColumnBlockReturn ==
    /\ pc = "rows"
    /\ ~LoopRuns(m_block_size)
    /\ col' = col + n_block_size
    /\ pc' = "cols"
    /\ UNCHANGED <<inputs, C, n_block_size, first_col, num_cols, row,
                   m_block_size, ret, logs, others>>

Next ==
    \/ EntryReturn
    \/ EntryProceed
    \/ ColumnBlockCall
    \/ ColumnHalve
    \/ Return
    \/ BlockVector
    \/ BlockGeneric
    \/ RowHalve
    \/ ColumnBlockReturn

Spec == Init /\ [][Next]_vars

(***************************************************************************)
(* The packed layout CNAME expects of its operands (produced by the copy   *)
(* kernels of the caller): blocks of the preferred tile size, then one     *)
(* block for each power of two in the remainder, largest first.            *)
(***************************************************************************)
RECURSIVE RemainderBlock(_, _, _, _)
RemainderBlock(start, rem, size, x) ==
    IF size <= 1 THEN [start |-> x, size |-> 1]
    ELSE IF rem >= size
         THEN IF x < start + size
              THEN [start |-> start, size |-> size]
              ELSE RemainderBlock(start + size, rem - size, size \div 2, x)
         ELSE RemainderBlock(start, rem, size \div 2, x)

\* the block of a dimension of the given extent that holds index x
PackedBlock(extent, tile, x) ==
    LET full == (extent \div tile) * tile
    IN  IF x < full
        THEN [start |-> (x \div tile) * tile, size |-> tile]
        ELSE RemainderBlock(full, extent - full, tile \div 2, x)

\* where A_logical[i][kk] lies in ba: row blocks, each column by column
PackedAIndex(m, k, i, kk) ==
    LET b == PackedBlock(m, UNROLL_M, i)
    IN  b.start * k + kk * b.size + (i - b.start)

\* where B_logical[kk][j] lies in bb: column blocks, each row by row
PackedBIndex(n, k, kk, j) ==
    LET b == PackedBlock(n, UNROLL_N, j)
    IN  b.start * k + kk * b.size + (j - b.start)

(***************************************************************************)
(* The naive triple-loop reference.                                        *)
(***************************************************************************)
RECURSIVE RefDot(_, _, _)
RefDot(i, j, upto) ==
    IF upto = 0 THEN 0
    ELSE RefDot(i, j, upto - 1)
         + ba[PackedAIndex(bm, bk, i, upto - 1)]
           * bb[PackedBIndex(bn, bk, upto - 1, j)]

Reference(i, j) == C_before[i + j * ldc] + alpha * RefDot(i, j, bk)

\* the slice of C the call addresses
Slice == {i + j * ldc : i \in 0 .. bm - 1, j \in 0 .. bn - 1}

(***************************************************************************)
(* Claims about one call of CNAME.                                         *)
(***************************************************************************)

\* C1: for bm, bn, bk >= 1 and operands in the packed layout, when CNAME has
\* returned it has returned 0 and every C[i + j*ldc] of the slice equals
\* C_before[i + j*ldc] + alpha * sum over kk of A[i][kk] * B[kk][j] of the
\* naive reference.
C1_Product ==
    (pc = "done" /\ bm >= 1 /\ bn >= 1 /\ bk >= 1)
        => /\ ret = 0
           /\ \A i \in 0 .. bm - 1 : \A j \in 0 .. bn - 1 :
                 C[i + j * ldc] = Reference(i, j)

C1_Witness ==
    /\ pc = "done" /\ ret = 0
    /\ bm = 17 /\ bn = 9 /\ bk = 2 /\ alpha = 2 /\ ldc = 18
    /\ ncalls.vec > 0 /\ ncalls.generic > 0
    /\ \E p \in Slice : C[p] # C_before[p]

\* C2: if bm = 0 or bn = 0 or bk = 0 or alpha = 0, CNAME returns 0, leaves
\* all of C as it was and invokes neither the column-block driver, nor the
\* row-block kernel, nor a micro-kernel.
C2_DegenerateNoOp ==
    (bm = 0 \/ bn = 0 \/ bk = 0 \/ alpha = 0)
        => /\ pc = "done" => ret = 0
           /\ C = C_before
           /\ ncalls.column_block = 0 /\ ncalls.block = 0
           /\ ncalls.vec = 0 /\ ncalls.generic = 0
           /\ wcount = << >>
           /\ pc \in {"entry", "done"}

C2_Witness ==
    /\ pc = "done" /\ ret = 0
    /\ alpha = 0 /\ bm = 9 /\ bn = 5 /\ bk = 2
    /\ \E p \in DOMAIN ba : ba[p] # 0
    /\ \E p \in DOMAIN bb : bb[p] # 0
    /\ \E p \in DOMAIN C : C[p] # 0

\* C8: for bm, bn, bk >= 1, alpha # 0 and ldc >= bm, the locations written
\* so far all lie in the slice { C[i + j*ldc] } and none was written twice;
\* when the call has returned each location of the slice was
\* read-modify-written exactly once and every other location of C is as it
\* was; no step changes A or B.
C8_StateFrame ==
    (bm >= 1 /\ bn >= 1 /\ bk >= 1 /\ alpha # 0)
        => /\ DOMAIN wcount \subseteq Slice
           /\ \A p \in DOMAIN wcount : wcount[p] = 1
           /\ \A p \in DOMAIN C \ DOMAIN wcount : C[p] = C_before[p]
           /\ pc = "done" => DOMAIN wcount = Slice
           /\ ncalls.block = ncalls.vec + ncalls.generic

\* C8: the frame condition above holds in every state of the call, and no
\* step of the call changes an element of A or B.
C8_Frame == [](C8_StateFrame) /\ [][ba' = ba /\ bb' = bb]_vars

C8_Witness ==
    /\ pc = "done" /\ bm = 13 /\ bn = 7 /\ bk = 2 /\ alpha = 0 - 1
    /\ ldc = 14
    /\ DOMAIN wcount = Slice
    /\ \E p \in DOMAIN C : p \notin Slice /\ C[p] # 0

\* C9: every invocation of GEBP_block has rows >= 1, cols >= 1 and k >= 1,
\* and every invocation of a micro-kernel has a row count that is a multiple
\* of the vector length (4 elements in the single build, 2 in the double).
C9_Guarded ==
    lastcall.kind # "none"
        => /\ lastcall.m >= 1 /\ lastcall.n >= 1 /\ lastcall.k >= 1
           /\ lastcall.kind = "vec"
                 => lastcall.m % (IF DOUBLE THEN 2 ELSE 4) = 0

C9_Witness ==
    /\ lastcall.kind = "vec" /\ lastcall.m = 2 /\ lastcall.k = 1
    /\ DOUBLE /\ ncalls.generic > 0

\* C10: every element index read from A lies in [0, bm*bk) and every element
\* index read from B lies in [0, bk*bn).
C10_ReadsInBounds ==
    /\ readsA \subseteq 0 .. bm * bk - 1
    /\ readsB \subseteq 0 .. bk * bn - 1

C10_Witness ==
    /\ pc = "done" /\ bm = 13 /\ bn = 7 /\ bk = 2
    /\ readsA = 0 .. bm * bk - 1
    /\ readsB = 0 .. bk * bn - 1
    /\ ncalls.vec > 0 /\ ncalls.generic > 0

\* C7 as stated: at every micro-kernel invocation the element offsets of
\* both the A pointer and the B pointer are multiples of VLEN_FLOATS.
C7_BothAligned ==
    lastcall.kind = "vec"
        => /\ lastcall.A % (IF DOUBLE THEN 2 ELSE 4) = 0
           /\ lastcall.B % (IF DOUBLE THEN 2 ELSE 4) = 0

\* C7 amended: at every micro-kernel invocation the offset of the A pointer
\* is a multiple of VLEN_FLOATS; the offset of the B pointer is a multiple
\* of VLEN_FLOATS in the double build and for blocks of at least 2 columns,
\* and a multiple of 2 elements in every case.
C7_Aligned ==
    lastcall.kind = "vec"
        => /\ lastcall.A % (IF DOUBLE THEN 2 ELSE 4) = 0
           /\ (DOUBLE \/ lastcall.n >= 2)
                 => lastcall.B % (IF DOUBLE THEN 2 ELSE 4) = 0
           /\ lastcall.B % 2 = 0

C7_Witness ==
    /\ lastcall.kind = "vec" /\ ~DOUBLE
    /\ lastcall.m = 4 /\ lastcall.n = 1
    /\ lastcall.A = 8 /\ lastcall.B = 6

(***************************************************************************)
(* The partitioning loop on its own, for any extent E and tile size T.     *)
(***************************************************************************)
callIdle ==
    /\ DOUBLE = FALSE /\ bm = 0 /\ bn = 0 /\ bk = 0 /\ alpha = 0 /\ ldc = 1
    /\ ba = << >> /\ bb = << >> /\ C = << >> /\ C_before = << >>
    /\ pc = "idle" /\ col = 0 /\ n_block_size = 0
    /\ first_col = 0 /\ num_cols = 0 /\ row = 0 /\ m_block_size = 0
    /\ ret = NoRet
    /\ ncalls = [column_block |-> 0, block |-> 0, vec |-> 0, generic |-> 0]
    /\ lastcall = NoCall
    /\ wcount = << >> /\ readsA = {} /\ readsB = {}

InitPart ==
    /\ E \in 0 .. MaxE
    /\ T \in 1 .. MaxT
    /\ block_size = T
    /\ offset = 0
    /\ blocks = << >>
    /\ ppc = "loop"
    /\ callIdle /\ tileIdle /\ concIdle

\* the loop body: one block [offset, offset + block_size) is handed on
PartBlock ==
    /\ ppc = "loop"
    /\ LoopRuns(block_size)
    /\ BodyRuns(E, offset, block_size)
    /\ blocks' = Append(blocks, [start |-> offset, size |-> block_size])
    /\ offset' = offset + block_size
    /\ UNCHANGED <<E, T, block_size, ppc, callVars, tileVars, concVars>>

\* block_size /= 2
PartHalve ==
    /\ ppc = "loop"
    /\ LoopRuns(block_size)
    /\ ~BodyRuns(E, offset, block_size)
    /\ block_size' = Halve(block_size)
    /\ UNCHANGED <<E, T, offset, blocks, ppc, callVars, tileVars, concVars>>

\* block_size > 0 fails: the loop is left
PartExit ==
    /\ ppc = "loop"
    /\ ~LoopRuns(block_size)
    /\ ppc' = "done"
    /\ UNCHANGED <<E, T, block_size, offset, blocks, callVars, tileVars,
                   concVars>>

NextPart == PartBlock \/ PartHalve \/ PartExit

SpecPart == InitPart /\ [][NextPart]_vars

RECURSIVE SumSizes(_, _)
SumSizes(bl, upto) ==
    IF upto = 0 THEN 0 ELSE SumSizes(bl, upto - 1) + bl[upto].size

RECURSIVE HalvingSet(_)
HalvingSet(t) == IF t <= 0 THEN {} ELSE {t} \cup HalvingSet(t \div 2)

RECURSIVE FloorLog2(_)
FloorLog2(t) == IF t <= 1 THEN 0 ELSE 1 + FloorLog2(t \div 2)

IsPowerOfTwo(t) == \E e \in 0 .. t : 2 ^ e = t

TimesUsed(bl, size) == Cardinality({x \in DOMAIN bl : bl[x].size = size})

\* C3: the blocks start at offset 0, each starts where the previous one
\* ends, every block has at least one element, and when the loop is left
\* the sizes sum to E; E = 5 with T = 8 gives a block of 4 at 0 and a block
\* of 1 at 4.
C3_Exact ==
    /\ \A x \in DOMAIN blocks :
          /\ blocks[x].size >= 1
          /\ blocks[x].start =
                (IF x = 1 THEN 0
                 ELSE blocks[x - 1].start + blocks[x - 1].size)
    /\ SumSizes(blocks, Len(blocks)) = offset
    /\ offset <= E
    /\ ppc = "done" => SumSizes(blocks, Len(blocks)) = E
    /\ (ppc = "done" /\ E = 5 /\ T = 8)
          => blocks = <<[start |-> 0, size |-> 4], [start |-> 4, size |-> 1]>>

C3_Witness ==
    /\ ppc = "done" /\ E = 19 /\ T = 6
    /\ blocks = <<[start |-> 0, size |-> 6], [start |-> 6, size |-> 6],
                  [start |-> 12, size |-> 6], [start |-> 18, size |-> 1]>>

\* C4 as stated: the block sizes are strictly decreasing, drawn from
\* T, T/2, ..., 1, and there are at most floor(log2(T)) + 1 blocks.
C4_StrictlyDecreasing ==
    /\ \A x \in DOMAIN blocks : blocks[x].size \in HalvingSet(T)
    /\ \A x \in DOMAIN blocks : x > 1 => blocks[x].size < blocks[x - 1].size
    /\ Len(blocks) <= FloorLog2(T) + 1

\* C4 amended: the block sizes never increase and are drawn from
\* T, T/2, ..., 1; size T is used floor(E/T) times, every smaller size at
\* most twice, and at most once when T is a power of two; so there are at
\* most floor(E/T) + 2 * floor(log2(T)) blocks.
C4_NonIncreasing ==
    /\ \A x \in DOMAIN blocks : blocks[x].size \in HalvingSet(T)
    /\ \A x \in DOMAIN blocks : x > 1 => blocks[x].size <= blocks[x - 1].size
    /\ TimesUsed(blocks, T) <= E \div T
    /\ (ppc = "done" \/ block_size < T) => TimesUsed(blocks, T) = E \div T
    /\ \A sz \in HalvingSet(T) \ {T} :
          TimesUsed(blocks, sz) <= (IF IsPowerOfTwo(T) THEN 1 ELSE 2)
    /\ Len(blocks) <= (E \div T) + 2 * FloorLog2(T)

C4_Witness ==
    /\ ppc = "done" /\ E = 20 /\ T = 7
    /\ blocks = <<[start |-> 0, size |-> 7], [start |-> 7, size |-> 7],
                  [start |-> 14, size |-> 3], [start |-> 17, size |-> 3]>>

(***************************************************************************)
(* One tile of a specialized shape, taken through GEBP_block as it         *)
(* dispatches (the micro-kernel) and through its generic path.             *)
(***************************************************************************)
\* the updates of GEBP_block with the BLOCK dispatch left out
ForcedGenericUpdates(m, n, frow, A, k, B, Cp, ld, al) ==
    GenUpdates(m, n, BlockA(A, frow, k), k, B, BlockC(Cp, frow), ld, al)

Shapes == {<<m, n>> \in (1 .. 8) \X (1 .. 4) : Specialized(m, n)}

InitTile ==
    /\ DOUBLE \in BOOLEAN
    /\ \E sh \in Shapes : bm = sh[1] /\ bn = sh[2]
    /\ bk \in 1 .. MaxK
    /\ alpha \in Alphas
    /\ row \in {0, bm}
    /\ ldc \in row + bm .. row + bm + MaxPad
    /\ \E seed \in 0 .. MaxSeed :
          /\ ba = Fill(seed, (row + bm) * bk)
          /\ bb = Fill(seed + 1, bk * bn)
          /\ C = Fill(seed + 2, ldc * bn)
    /\ C_before = C
    /\ pc = "tile"
    /\ col = 0 /\ n_block_size = 0
    /\ first_col = 0 /\ num_cols = 0 /\ m_block_size = 0
    /\ ret = NoRet
    /\ ncalls = [column_block |-> 0, block |-> 0, vec |-> 0, generic |-> 0]
    /\ lastcall = NoCall
    /\ wcount = << >> /\ readsA = {} /\ readsB = {}
    /\ Cvec = << >> /\ Cgen = << >>
    /\ partIdle /\ concIdle

\* GEBP_block(bm, bn, row, ba, bk, bb, C, ldc, alpha) as dispatched
TileDispatched ==
    /\ pc = "tile"
    /\ Cvec = << >>
    /\ Cvec' = ApplyAll(C, BlockUpdates(bm, bn, row, 0, bk, 0, 0, ldc, alpha))
    /\ UNCHANGED <<callVars, Cgen, partVars, concVars>>

\* the same call with the generic path forced
TileGeneric ==
    /\ pc = "tile"
    /\ Cgen = << >>
    /\ Cgen' = ApplyAll(C, ForcedGenericUpdates(bm, bn, row, 0, bk, 0, 0,
                                                ldc, alpha))
    /\ UNCHANGED <<callVars, Cvec, partVars, concVars>>

NextTile == TileDispatched \/ TileGeneric

SpecTile == InitTile /\ [][NextTile]_vars

\* C6: for every specialized shape, k >= 1, alpha, ldc and contents, the
\* generic path of GEBP_block leaves C as the micro-kernel does.
C6_Equivalent ==
    (Cvec # << >> /\ Cgen # << >>) => Cvec = Cgen

C6_Witness ==
    /\ Cvec # << >> /\ Cgen # << >>
    /\ bm = 8 /\ bn = 4 /\ bk = 2 /\ alpha = 2 /\ row = 8
    /\ Cvec # C
    /\ \A i \in 0 .. 7 : \A j \in 0 .. 3 :
          Cgen[row + i + j * ldc] # C[row + i + j * ldc]

(***************************************************************************)
(* Two invocations of CNAME running concurrently on one C buffer, each     *)
(* given its own slice of it; ba and bb are shared and only read.          *)
(***************************************************************************)
MaxTM == 5
MaxTN == 2
MaxTK == 1

Threads == {1, 2}

RECURSIVE Flatten(_, _)
Flatten(seqs, upto) ==
    IF upto = 0 THEN << >> ELSE Flatten(seqs, upto - 1) \o seqs[upto]

\* GEBP_column_block as a whole: the updates of its row blocks, in order
ColumnBlockUpdates(ncols, fcol, A, k, B, m, Cp, ld, al) ==
    LET rbs == LoopBlocks(m, unroll_m, 0)
        per == [x \in DOMAIN rbs |->
                   BlockUpdates(rbs[x].size, ncols, rbs[x].start, A, k,
                                ColumnB(B, fcol, k), ColumnC(Cp, fcol, ld),
                                ld, al)]
    IN  Flatten(per, Len(per))

\* CNAME as a whole: the read-modify-writes of C it performs, in order
CallUpdates(m, n, k, al, A, B, Cp, ld) ==
    IF Degenerate(m, n, k, al) THEN << >>
    ELSE LET cbs == LoopBlocks(n, unroll_n, 0)
             per == [x \in DOMAIN cbs |->
                        ColumnBlockUpdates(cbs[x].size, cbs[x].start, A, k,
                                           B, m, Cp, ld, al)]
         IN  Flatten(per, Len(per))

\* Where the second invocation's slice starts, and the stride both use:
\* below the first one's rows, or right of its columns.
InitConc ==
    /\ DOUBLE \in BOOLEAN
    /\ bk \in 1 .. MaxTK
    /\ alpha \in Alphas
    /\ \E m1 \in 1 .. MaxTM, n1 \in 1 .. MaxTN,
          m2 \in 1 .. MaxTM, n2 \in 1 .. MaxTN, below \in BOOLEAN :
          LET mx == MaxOf(m1, m2)
              nx == MaxOf(n1, n2)
              ld == IF below THEN m1 + m2 ELSE mx
              base2 == IF below THEN m1 ELSE n1 * ld
              len == IF below THEN ld * nx ELSE ld * (n1 + n2)
          IN  /\ ldc = ld
              /\ ba = Fill(0, mx * bk)
              /\ bb = Fill(1, bk * nx)
              /\ shared = Fill(2, len)
              /\ th = [t \in Threads |->
                         [bm |-> IF t = 1 THEN m1 ELSE m2,
                          bn |-> IF t = 1 THEN n1 ELSE n2,
                          Cp |-> IF t = 1 THEN 0 ELSE base2,
                          prog |-> CallUpdates(IF t = 1 THEN m1 ELSE m2,
                                               IF t = 1 THEN n1 ELSE n2,
                                               bk, alpha, 0, 0,
                                               IF t = 1 THEN 0 ELSE base2,
                                               ld),
                          pos |-> 1, phase |-> "read", tmp |-> << >>]]
    /\ C_before = shared
    /\ bm = 0 /\ bn = 0 /\ C = << >>
    /\ pc = "conc"
    /\ col = 0 /\ n_block_size = 0
    /\ first_col = 0 /\ num_cols = 0 /\ row = 0 /\ m_block_size = 0
    /\ ret = NoRet
    /\ ncalls = [column_block |-> 0, block |-> 0, vec |-> 0, generic |-> 0]
    /\ lastcall = NoCall
    /\ wcount = << >> /\ readsA = {} /\ readsB = {}
    /\ partIdle /\ tileIdle

\* the program of invocation t: its read-modify-writes of C, in order
Program(t) == th[t].prog

\* the load of *C_ij (or C[i + j * ldc]) of the update the invocation is at
ReadC(t) ==
    /\ pc = "conc"
    /\ th[t].phase = "read"
    /\ th[t].pos <= Len(Program(t))
    /\ LET u == Program(t)[th[t].pos]
       IN  th' = [th EXCEPT ![t].phase = "write",
                            ![t].tmp = [l \in DOMAIN u.delta |->
                                           Load(shared, u.base + l - 1)]]
    /\ UNCHANGED <<shared, callVars, partVars, tileVars>>

\* the store that completes it
WriteC(t) ==
    /\ pc = "conc"
    /\ th[t].phase = "write"
    /\ LET u == Program(t)[th[t].pos]
       IN  shared' = [p \in DOMAIN shared |->
                         IF Covers(u, p)
                         THEN th[t].tmp[p - u.base + 1] + u.delta[p - u.base + 1]
                         ELSE shared[p]]
    /\ th' = [th EXCEPT ![t].phase = "read", ![t].pos = @ + 1,
                        ![t].tmp = << >>]
    /\ UNCHANGED <<callVars, partVars, tileVars>>

NextConc == \E t \in Threads : ReadC(t) \/ WriteC(t)

SpecConc == InitConc /\ [][NextConc]_vars

Returned(t) == th[t].phase = "read" /\ th[t].pos > Len(Program(t))

\* the slice of C invocation t is given
SliceOf(t) ==
    {th[t].Cp + i + j * ldc : i \in 0 .. th[t].bm - 1, j \in 0 .. th[t].bn - 1}

\* C5: two invocations given disjoint slices of C: once both have returned,
\* whatever the interleaving of their reads and writes of C, the buffer is
\* what one invocation after the other leaves, in either order.
C5_Serializable ==
    (SliceOf(1) \cap SliceOf(2) = {} /\ Returned(1) /\ Returned(2))
        => /\ shared = ApplyAll(ApplyAll(C_before, Program(1)), Program(2))
           /\ shared = ApplyAll(ApplyAll(C_before, Program(2)), Program(1))

C5_Witness ==
    /\ pc = "conc" /\ Returned(1) /\ Returned(2)
    /\ SliceOf(1) \cap SliceOf(2) = {}
    /\ th[1].bm = 5 /\ th[1].bn = 2 /\ th[2].bm = 3 /\ th[2].bn = 2
    /\ alpha = 2 /\ ~DOUBLE
    /\ \E p \in SliceOf(1) : shared[p] # C_before[p]
    /\ \E p \in SliceOf(2) : shared[p] # C_before[p]
    /\ shared = ApplyAll(ApplyAll(C_before, Program(1)), Program(2))

====
